---- MODULE Spec2Model ----
(***************************************************************************)
(* Baby-step giant-step discrete logarithm solver (shramee/baby_giant).    *)
(*                                                                         *)
(*  - crates/core/src/baby_giant.rs : trait BabyGiantOps and its run       *)
(*  - crates/core/src/impls/grumpkin.rs : GrumpkinBabyGiant, the adapter   *)
(*    over the Grumpkin curve, and the boundary function grumpkin_bsgs     *)
(*  - crates/core/src/lib.rs : trait BsgsOps, its u128 adapter and         *)
(*    modular_exponentiation                                               *)
(*  - crates/wasm/src/lib.rs : grumpkin_log_point                          *)
(*                                                                         *)
(* Fixed-width integers keep a width, scaled down: u64 is ScalarBits bits  *)
(* wide and u128 is WordBits bits wide.  The curve group keeps what the    *)
(* arguments about it use: it is cyclic of prime order, its order exceeds  *)
(* m*m + m for every m a u64 holds (2^254 > 2^128 + 2^64), and the table   *)
(* key of a point, its x-coordinate, is shared by the point and its        *)
(* negation and by nothing else.                                           *)
(***************************************************************************)
EXTENDS Integers, FiniteSets, Sequences, TLC

(***************************************************************************)
(* Bounds of the model.                                                    *)
(***************************************************************************)
\* width of the u64 of the model, in bits
ScalarBits == 3

\* number of run calls made on one solver instance (SpecReuse)
MaxRuns == 2

\* width of the u128 of the model, in bits
WordBits == 6

\* lib.rs, STEPS_COUNT of the u128 adapter (2^20 in the source)
STEPS_COUNT == 3

\* largest exponent modular_exponentiation is called with (SpecModExp)
MaxExponent == 7

RECURSIVE Pow(_, _)
Pow(b, n) == IF n = 0 THEN 1 ELSE b * Pow(b, n - 1)

U64Modulus == Pow(2, ScalarBits)
U64Max == U64Modulus - 1
U64 == 0..U64Max

U128Modulus == Pow(2, WordBits)
U128Max == U128Modulus - 1
U128 == 0..U128Max

(***************************************************************************)
(* The curve group (ark_grumpkin).  A point is written as its multiple of  *)
(* the generator: k stands for k.G, 0 for the point at infinity.           *)
(***************************************************************************)
IsPrime(n) == n > 1 /\ \A d \in 2..(n - 1) : n % d # 0

\* the least prime above m*m + m for every m of the u64
Order ==
  LET low == U64Modulus * U64Modulus + U64Modulus
  IN  CHOOSE p \in (low + 1)..(2 * low) :
        IsPrime(p) /\ \A q \in (low + 1)..(p - 1) : ~IsPrime(q)

Affine == 0..(Order - 1)
Fr == 0..(Order - 1)
Identity == 0

\* g(): the generator point
g == 1

\* the bases run is called with: the generator, as every caller of the
\* repository passes it, and the point at infinity.  Multiplication by a unit
\* of the scalar field is an automorphism of the group that maps negations to
\* negations, so a run with any other base goes as the run with base g and
\* the target scaled with it.
Bases == {Identity, g}

\* the bases of a later run on the same solver: a second base of full order
LaterBases == Bases \cup {(g + g) % Order}

\* lhs + rhs on points
PointAdd(lhs, rhs) == (lhs + rhs) % Order

\* -p
PointNeg(p) == (Order - p) % Order

\* p * s, s a scalar of the curve's scalar field
PointMul(p, s) == (p * s) % Order

\* u64 -> Fr (steps_count.into())
IntoFr(n) == n % Order

\* p.x, the affine x-coordinate: p and -p share it; the point at infinity
\* carries x = 0, which no finite point of Grumpkin has (y^2 = -17 has no
\* root in the base field)
XCoord(p) == IF p = Identity THEN 0 ELSE IF p <= Order - p THEN p ELSE Order - p

(***************************************************************************)
(* Option<u64> as run returns it, and a panic unwinding out of run.        *)
(***************************************************************************)
None == [tag |-> "None", val |-> 0]
Some(v) == [tag |-> "Some", val |-> v]
Panicked == [tag |-> "Panic", val |-> 0]
Pending == [tag |-> "Pending", val |-> 0]

(***************************************************************************)
(* State.                                                                  *)
(***************************************************************************)
VARIABLES
  overflow_checks,  \* build profile: TRUE panics on overflow, FALSE wraps
  steps_count,      \* GrumpkinBabyGiant.steps_count
  baby_steps,       \* GrumpkinBabyGiant.baby_steps : HashMap<Fq, u64>
  pc,               \* position of the caller / of run
  base,             \* run's base
  target,           \* run's target
  bs_current,       \* baby_steps(): current
  baby_step,        \* baby_steps(): baby_step
  gaint_step_jump,  \* run: gaint_step_jump
  current,          \* run: current
  giant_step,       \* run: giant_step
  result,           \* what run returned
  runs,             \* history: run calls made on this solver
  origin,           \* history: key -> the run call that inserted the entry
  inserts,          \* history: table insertions of the current run
  probes,           \* history: table probes of the current run
  jumps,            \* history: jump applications of the current run
  prev,             \* history: the call replayed on a new solver, and its result
  modexp,           \* lib.rs: a call of modular_exponentiation
  bsgs              \* lib.rs: a run of the u128 adapter

vars == <<overflow_checks, steps_count, baby_steps, pc, base, target,
          bs_current, baby_step, gaint_step_jump, current, giant_step, result,
          runs, origin, inserts, probes, jumps, prev, modexp, bsgs>>

EmptyMap == [k \in {} |-> 0]

\* HashMap::insert
MapInsert(map, key, val) ==
  [k \in (DOMAIN map) \cup {key} |-> IF k = key THEN val ELSE map[k]]

NoPrev == [set |-> FALSE, base |-> 0, target |-> 0, result |-> Pending]

\* no call of lib.rs under way
ModExpIdle == [pc |-> "idle", base |-> 0, exponent |-> 0, modulus |-> 0, result |-> Pending]
BsgsIdle ==
  [pc |-> "idle", modulus |-> 0, base |-> 0, x |-> 0, target |-> 0, table |-> EmptyMap,
   giant_step_base |-> 0, current |-> 0, giant_step |-> 0, result |-> Pending]

(***************************************************************************)
(* GrumpkinBabyGiant                                                       *)
(***************************************************************************)
\* GrumpkinBabyGiant::new(steps_count)
New(m) ==
  /\ steps_count = m
  /\ baby_steps = EmptyMap
  /\ origin = EmptyMap
  /\ runs = 0

\* no run under way
RunIdle ==
  /\ pc = "ready"
  /\ base = Identity
  /\ target = Identity
  /\ bs_current = Identity
  /\ baby_step = 0
  /\ gaint_step_jump = Identity
  /\ current = Identity
  /\ giant_step = 0
  /\ result = Pending
  /\ inserts = 0
  /\ probes = 0
  /\ jumps = 0
  /\ prev = NoPrev

Init ==
  /\ overflow_checks \in BOOLEAN
  /\ \E m \in U64 : New(m)
  /\ RunIdle
  /\ modexp = ModExpIdle
  /\ bsgs = BsgsIdle

\* baby_steps(): while baby_step < self.steps_count
BabyStepsGuard(step, m) == step < m

\* a table that keeps the first index written under a key
BabyStepsInsertKeepFirst(map, point, step) ==
  IF XCoord(point) \in DOMAIN map THEN map ELSE MapInsert(map, XCoord(point), step)

\* baby_steps(): self.baby_steps.insert(current.x, baby_step)
BabyStepsInsert(map, point, step) == MapInsert(map, XCoord(point), step)

\* in_baby_steps(): self.baby_steps.get(&target.x)
InBabySteps(map, point) ==
  IF XCoord(point) \in DOMAIN map THEN Some(map[XCoord(point)]) ELSE None

\* el_operation(): (*lhs + *rhs).into()
ElOperation(lhs, rhs) == PointAdd(lhs, rhs)

\* a jump of +m instead of -m
GiantStepJumpForward(m, b) == PointMul(b, IntoFr(m))

\* giant_step_jump(): (-(*base * m)).into(), m = steps_count.into()
GiantStepJump(m, b) == PointNeg(PointMul(b, IntoFr(m)))

\* process_result(): giant * step_count + baby, in u64
ProcessResult(baby, giant, m, checks) ==
  LET wide == giant * m + baby
  IN  IF wide <= U64Max THEN Some(wide)
      ELSE IF checks THEN Panicked
      ELSE Some(wide % U64Modulus)

\* a scan that runs one giant step too many
ScanGuardInclusive(giant, m) == giant <= m

\* run: while giant_step < steps_count
ScanGuard(giant, m) == giant < m

\* a caller calls run(base, target): run enters baby_steps(&base); the locals
\* of run that are not yet bound read as zero
Call(b, t) ==
  /\ base' = b
  /\ target' = t
  /\ bs_current' = b
  /\ baby_step' = 0
  /\ result' = Pending
  /\ inserts' = 0
  /\ probes' = 0
  /\ jumps' = 0
  /\ gaint_step_jump' = Identity
  /\ current' = Identity
  /\ giant_step' = 0
  /\ pc' = "baby_steps"
  /\ UNCHANGED <<modexp, bsgs, overflow_checks, steps_count>>

\* run on a solver just constructed
Run(b, t) ==
  /\ pc = "ready"
  /\ Call(b, t)
  /\ runs' = runs + 1
  /\ UNCHANGED <<baby_steps, origin, prev>>

\* run called again on the solver an earlier run has used
Rerun(b, t) ==
  /\ pc = "done"
  /\ ~prev.set
  /\ runs < MaxRuns
  /\ Call(b, t)
  /\ runs' = runs + 1
  /\ UNCHANGED <<baby_steps, origin, prev>>

\* the call just made is made again, with the same base, target and
\* steps_count, on a solver constructed for it (GrumpkinBabyGiant::new)
Replay ==
  /\ pc = "done"
  /\ ~prev.set
  /\ prev' = [set |-> TRUE, base |-> base, target |-> target, result |-> result]
  /\ baby_steps' = EmptyMap
  /\ origin' = EmptyMap
  /\ runs' = 1
  /\ Call(base, target)

\* one iteration of the loop of baby_steps()
BabyStep ==
  /\ pc = "baby_steps"
  /\ BabyStepsGuard(baby_step, steps_count)
  /\ baby_step' = baby_step + 1
  /\ baby_steps' = BabyStepsInsert(baby_steps, bs_current, baby_step')
  /\ origin' = MapInsert(origin, XCoord(bs_current), runs)
  /\ bs_current' = PointAdd(bs_current, base)
  /\ inserts' = inserts + 1
  /\ UNCHANGED <<modexp, bsgs, overflow_checks, steps_count, pc, base, target, gaint_step_jump,
                 current, giant_step, result, runs, probes, jumps, prev>>

\* baby_steps() returns; run computes the jump and sets up the scan
BabyStepsDone ==
  /\ pc = "baby_steps"
  /\ ~BabyStepsGuard(baby_step, steps_count)
  /\ gaint_step_jump' = GiantStepJump(steps_count, base)
  /\ current' = target
  /\ giant_step' = 0
  /\ pc' = "scan"
  /\ UNCHANGED <<modexp, bsgs, overflow_checks, steps_count, baby_steps, base, target, bs_current,
                 baby_step, result, runs, origin, inserts, probes, jumps, prev>>

\* the scan finds current in the table and returns
ScanHit ==
  /\ pc = "scan"
  /\ ScanGuard(giant_step, steps_count)
  /\ InBabySteps(baby_steps, current) # None
  /\ probes' = probes + 1
  /\ result' = ProcessResult(InBabySteps(baby_steps, current).val, giant_step,
                             steps_count, overflow_checks)
  /\ pc' = IF result' = Panicked THEN "panic" ELSE "done"
  /\ UNCHANGED <<modexp, bsgs, overflow_checks, steps_count, baby_steps, base, target, bs_current,
                 baby_step, gaint_step_jump, current, giant_step, runs, origin,
                 inserts, jumps, prev>>

\* the scan misses and applies the jump
ScanMiss ==
  /\ pc = "scan"
  /\ ScanGuard(giant_step, steps_count)
  /\ InBabySteps(baby_steps, current) = None
  /\ probes' = probes + 1
  /\ current' = ElOperation(current, gaint_step_jump)
  /\ giant_step' = giant_step + 1
  /\ jumps' = jumps + 1
  /\ UNCHANGED <<modexp, bsgs, overflow_checks, steps_count, baby_steps, pc, base, target,
                 bs_current, baby_step, gaint_step_jump, result, runs, origin,
                 inserts, prev>>

\* the loop ends without a match
ScanExhausted ==
  /\ pc = "scan"
  /\ ~ScanGuard(giant_step, steps_count)
  /\ result' = None
  /\ pc' = "done"
  /\ UNCHANGED <<modexp, bsgs, overflow_checks, steps_count, baby_steps, base, target, bs_current,
                 baby_step, gaint_step_jump, current, giant_step, runs, origin,
                 inserts, probes, jumps, prev>>

\* the steps run takes once called
RunStep == BabyStep \/ BabyStepsDone \/ ScanHit \/ ScanMiss \/ ScanExhausted

Next ==
  \/ \E b \in Bases, t \in Affine : Run(b, t)
  \/ BabyStep
  \/ BabyStepsDone
  \/ ScanHit
  \/ ScanMiss
  \/ ScanExhausted

\* every caller of the repository: a new solver for each run
Spec == Init /\ [][Next]_vars

\* the same, run being a sequential computation that is not suspended
SpecFair == Spec /\ WF_vars(RunStep)

NextReuse ==
  \/ Next
  \/ \E b \in LaterBases, t \in Affine : Rerun(b, t)
  \/ Replay

\* the API: run takes &mut self, and a caller may call it again
SpecReuse == Init /\ [][NextReuse]_vars

(***************************************************************************)
(* lib.rs: modular_exponentiation and the u128 adapter of BsgsOps          *)
(***************************************************************************)
\* a u128 returned
Value(v) == [tag |-> "Value", val |-> v]

gvars == <<steps_count, baby_steps, pc, base, target, bs_current, baby_step,
           gaint_step_jump, current, giant_step, result, runs, origin, inserts,
           probes, jumps, prev>>

\* the loop of modular_exponentiation; a product the u128 does not hold
\* panics under overflow checks and wraps without them
RECURSIVE ModExpLoop(_, _, _, _, _)
ModExpLoop(res, b, exp, modulus, checks) ==
  IF exp > 0
  THEN LET odd == exp % 2 = 1
           res1 == IF odd THEN ((res * b) % U128Modulus) % modulus ELSE res
           b1 == ((b * b) % U128Modulus) % modulus
       IN  IF checks /\ ((odd /\ res * b > U128Max) \/ b * b > U128Max)
           THEN Panicked
           ELSE ModExpLoop(res1, b1, exp \div 2, modulus, checks)
  ELSE Value(res)

\* modular_exponentiation(base, exponent, modulus); base % 0 panics
modular_exponentiation(b, exponent, modulus, checks) ==
  IF modulus = 1 THEN Value(0)
  ELSE IF modulus = 0 THEN Panicked
  ELSE ModExpLoop(1, b % modulus, exponent, modulus, checks)

\* a call of modular_exponentiation, any arguments
InitModExp ==
  /\ overflow_checks \in BOOLEAN
  /\ New(0)
  /\ RunIdle
  /\ bsgs = BsgsIdle
  /\ modexp \in [pc : {"called"}, base : U128, exponent : 0..MaxExponent,
                 modulus : U128, result : {Pending}]

ModExpReturn ==
  /\ modexp.pc = "called"
  /\ modexp' = [modexp EXCEPT
       !.pc = "returned",
       !.result = modular_exponentiation(modexp.base, modexp.exponent,
                                         modexp.modulus, overflow_checks)]
  /\ UNCHANGED <<overflow_checks, bsgs>>
  /\ UNCHANGED gvars

NextModExp == ModExpReturn

SpecModExp == InitModExp /\ [][NextModExp]_vars

\* the loop of u128::baby_steps: for j in 0..1_048_576 { insert(current, j);
\* current *= self }
RECURSIVE BabyStepsLoop(_, _, _, _, _)
BabyStepsLoop(map, cur, j, self, checks) ==
  IF j < STEPS_COUNT
  THEN IF checks /\ cur * self > U128Max
       THEN [panic |-> TRUE, map |-> map]
       ELSE BabyStepsLoop(MapInsert(map, cur, j), (cur * self) % U128Modulus,
                          j + 1, self, checks)
  ELSE [panic |-> FALSE, map |-> map]

\* u128::baby_steps(&self)
U128BabySteps(self, checks) == BabyStepsLoop(EmptyMap, self, 0, self, checks)

\* u128::scalar_mul(&self, scalar)
U128ScalarMul(self, scalar, checks) ==
  modular_exponentiation(self, scalar, U128Max, checks)

\* u128::process_result(baby, giant): giant * STEPS_COUNT + baby
U128ProcessResult(baby, giant, checks) ==
  LET wide == giant * STEPS_COUNT + baby
  IN  IF wide <= U128Max THEN Some(wide)
      ELSE IF checks THEN Panicked
      ELSE Some(wide % U128Modulus)

\* baby_step_giant_step: neg_m = modulus - (m % modulus);
\* giant_step_base = base.scalar_mul(neg_m), m the step count
U128GiantStepBase(b, modulus, checks) ==
  U128ScalarMul(b, modulus - (STEPS_COUNT % modulus), checks)

\* the group operation of the adapter: multiplication modulo the modulus
U128Operate(lhs, rhs, modulus) == (lhs * rhs) % modulus

\* b^e mod modulus, of the integers
RECURSIVE PowMod(_, _, _)
PowMod(b, e, modulus) ==
  IF e = 0 THEN 1 % modulus ELSE (b * PowMod(b, e - 1, modulus)) % modulus

\* the integer square root
Isqrt(n) == CHOOSE r \in 0..n : r * r <= n /\ (r + 1) * (r + 1) > n

\* the prime moduli p with isqrt(p) + 1 = STEPS_COUNT
Moduli == {p \in 2..U128Max : IsPrime(p) /\ Isqrt(p) + 1 = STEPS_COUNT}

InitU128 ==
  /\ overflow_checks \in BOOLEAN
  /\ New(0)
  /\ RunIdle
  /\ modexp = ModExpIdle
  /\ bsgs = BsgsIdle

\* run(base, target) with target = base^x mod p: the table is built and the
\* giant step base computed
U128Run(p, b, x) ==
  /\ bsgs.pc = "idle"
  /\ LET built == U128BabySteps(b, overflow_checks)
         jump == U128GiantStepBase(b, p, overflow_checks)
     IN  bsgs' = [bsgs EXCEPT
           !.pc = IF built.panic \/ jump = Panicked THEN "panic" ELSE "scan",
           !.modulus = p,
           !.base = b,
           !.x = x,
           !.target = PowMod(b, x, p),
           !.table = built.map,
           !.giant_step_base = jump.val,
           !.current = PowMod(b, x, p),
           !.giant_step = 0,
           !.result = IF built.panic \/ jump = Panicked THEN Panicked ELSE Pending]
  /\ UNCHANGED <<overflow_checks, modexp>>
  /\ UNCHANGED gvars

\* for giant_step in steps_range(): baby_steps.get(&current) is Some
U128ScanHit ==
  /\ bsgs.pc = "scan"
  /\ bsgs.giant_step < STEPS_COUNT
  /\ bsgs.current \in DOMAIN bsgs.table
  /\ LET res == U128ProcessResult(bsgs.table[bsgs.current], bsgs.giant_step,
                                  overflow_checks)
     IN  bsgs' = [bsgs EXCEPT
           !.pc = IF res = Panicked THEN "panic" ELSE "done",
           !.result = res]
  /\ UNCHANGED <<overflow_checks, modexp>>
  /\ UNCHANGED gvars

\* baby_steps.get(&current) is None: the giant step is applied
U128ScanMiss ==
  /\ bsgs.pc = "scan"
  /\ bsgs.giant_step < STEPS_COUNT
  /\ bsgs.current \notin DOMAIN bsgs.table
  /\ bsgs' = [bsgs EXCEPT
       !.current = U128Operate(bsgs.current, bsgs.giant_step_base, bsgs.modulus),
       !.giant_step = bsgs.giant_step + 1]
  /\ UNCHANGED <<overflow_checks, modexp>>
  /\ UNCHANGED gvars

\* the range is exhausted
U128ScanExhausted ==
  /\ bsgs.pc = "scan"
  /\ ~(bsgs.giant_step < STEPS_COUNT)
  /\ bsgs' = [bsgs EXCEPT !.pc = "done", !.result = None]
  /\ UNCHANGED <<overflow_checks, modexp>>
  /\ UNCHANGED gvars

NextU128 ==
  \/ \E p \in Moduli, b \in 2..(U128Max - 1), x \in 1..(STEPS_COUNT * STEPS_COUNT) :
       b < p /\ U128Run(p, b, x)
  \/ U128ScanHit
  \/ U128ScanMiss
  \/ U128ScanExhausted

SpecU128 == InitU128 /\ [][NextU128]_vars

(***************************************************************************)
(* Properties of lib.rs.                                                   *)
(***************************************************************************)
\* the multiplicative order of b modulo the prime p
OrderOf(b, p) == CHOOSE k \in 1..(p - 1) :
  PowMod(b, k, p) = 1 /\ \A i \in 1..(k - 1) : PowMod(b, i, p) # 1

\* C6: with base b, prime modulus p and m = isqrt(p) + 1, run(b, b^x mod p)
\* returns exactly x for every x in 1..m*m below the order of b.  Stated of
\* the runs that return.
C6_AdapterRecoversExponent ==
  (bsgs.pc = "done" /\ bsgs.x < OrderOf(bsgs.base, bsgs.modulus))
    => bsgs.result = Some(bsgs.x)

\* C9: modular_exponentiation(base, exponent, modulus) is base^exponent mod
\* modulus for every modulus >= 1 of the u128, the type's maximum included.
C9_ModularExponentiation ==
  (modexp.pc = "returned" /\ modexp.modulus >= 1)
    => modexp.result = Value(PowMod(modexp.base, modexp.exponent, modexp.modulus))

(***************************************************************************)
(* Properties of the Grumpkin solver.                                      *)
(***************************************************************************)
Returned == pc \in {"done", "panic"}

\* two baby steps of base b share a table key
KeysCollide(m, b) ==
  \E j1 \in 1..m, j2 \in 1..m :
    j1 # j2 /\ XCoord(PointMul(b, j1)) = XCoord(PointMul(b, j2))

\* the cursor of the scan after n applications of the jump
Cursor(n) == PointAdd(target, PointMul(gaint_step_jump, n))

Min(a, b) == IF a <= b THEN a ELSE b

\* grumpkin_bsgs / grumpkin_log_point: match res { Some(res) => res, None => 0 }
SentinelOf(res) == IF res.tag = "Some" THEN res.val ELSE 0

C2_BoundedFailure ==
  (Returned /\ base # Identity)
    => \A x \in (steps_count * steps_count + 1)..(Order - 1) :
         PointMul(base, x) = target => result = None

\* C5: once the build has run on an empty table, a key of the table maps to
\* the largest j in 1..m with j.base under that key, and every such key is
\* in the table; during the build, the same of the baby steps made so far.
C5_LastWriteWins ==
  runs = 1 =>
    /\ DOMAIN baby_steps = {XCoord(PointMul(base, j)) : j \in 1..baby_step}
    /\ \A k \in DOMAIN baby_steps :
         /\ baby_steps[k] \in 1..baby_step
         /\ XCoord(PointMul(base, baby_steps[k])) = k
         /\ \A j \in 1..baby_step :
              XCoord(PointMul(base, j)) = k => j <= baby_steps[k]

\* C5's case: a base of order below m, every baby step under one key
C5_Witness ==
  /\ pc = "scan"
  /\ runs = 1
  /\ base = Identity
  /\ steps_count >= 2
  /\ Cardinality(DOMAIN baby_steps) = 1
  /\ baby_steps[XCoord(Identity)] = steps_count

\* C7: the boundary returns 0 exactly when run returned None: run never
\* returns Some(0), and every Some(r) has 1 <= r <= m*m.
C7_Sentinel ==
  pc = "done" =>
    /\ (SentinelOf(result) = 0 <=> result = None)
    /\ result.tag = "Some" =>
         (1 <= result.val /\ result.val <= steps_count * steps_count)

\* C8: the cursor after g jumps is target - (g*m).base, and a returned
\* Some(r), r = g*m + b, has r.base = target.  The second part is stated for
\* the returns whose g*m + b the u64 holds.
C8_Soundness ==
  /\ pc \in {"scan", "done", "panic"}
       => current = PointAdd(target, PointNeg(PointMul(base, giant_step * steps_count)))
  /\ (pc = "done" /\ result.tag = "Some")
       => LET b == InBabySteps(baby_steps, current).val
              r == giant_step * steps_count + b
          IN  result = Some(r) => PointMul(base, IntoFr(r)) = target

\* what C10 says of every state of a run
C10_Invariant ==
  /\ inserts = baby_step
  /\ baby_step <= steps_count
  /\ pc \in {"scan", "done", "panic"} =>
       /\ inserts = steps_count
       /\ probes <= steps_count
       /\ jumps <= steps_count
       /\ giant_step = jumps
       /\ current = Cursor(giant_step)
       /\ \A n \in 0..(giant_step - 1) : InBabySteps(baby_steps, Cursor(n)) = None
  /\ pc = "scan" => probes = jumps
  /\ (Returned /\ result # None) =>
       /\ giant_step < steps_count
       /\ InBabySteps(baby_steps, Cursor(giant_step)) # None
       /\ probes = giant_step + 1
  /\ pc = "done" =>
       (result = None <=>
          \A n \in 0..(steps_count - 1) : InBabySteps(baby_steps, Cursor(n)) = None)
  /\ (pc = "done" /\ steps_count = 0) => (result = None /\ probes = 0)

\* C10: run terminates; the build makes exactly m insertions, the scan at
\* most m probes and m jumps with the giant index counting them from 0; it
\* stops at the first cursor in the table and returns None exactly when none
\* of the m cursors is in the table (with no probe when m = 0).
C10_BoundedScan ==
  /\ []C10_Invariant
  /\ (pc = "baby_steps") ~> Returned

\* C10's case: a scan that used its whole budget and returned None
C10_Witness ==
  /\ pc = "done"
  /\ result = None
  /\ steps_count >= 2
  /\ inserts = steps_count
  /\ probes = steps_count
  /\ jumps = steps_count

\* C3: the table the scan consults holds only entries the build of the
\* current run inserted for the current base.
C3_TableLifecycle ==
  pc = "scan" =>
    \A k \in DOMAIN baby_steps :
      /\ origin[k] = runs
      /\ \E j \in 1..steps_count : XCoord(PointMul(base, j)) = k

\* C4: two calls with the same base, target and steps_count return the same,
\* whatever calls the solver of one of them has served before.
C4_Determinism ==
  (pc = "done" /\ prev.set) => result = prev.result

====
